---------------------------- MODULE Spec2Model ----------------------------
(***************************************************************************)
(* A model of the blog server of src/server.js: the posts file and its     *)
(* temporary sibling on disk, the promise chain `pending` that serialises  *)
(* the mutating tasks, and the request handlers (create, update, delete,   *)
(* like/unlike, add comment, list).                                        *)
(*                                                                         *)
(* A request handler is followed step by step: reading the body, the call  *)
(* of queue(), the task's readPosts(), the three file-system steps of      *)
(* writePostsAtomic() (open the temporary file, write it, rename it) and   *)
(* the response.  The order in which enabled steps of different requests   *)
(* run is left open (any order the event loop could choose, and more), so  *)
(* that only the chain built by queue() orders the tasks.  The process may *)
(* be killed between any two steps and started again.                      *)
(*                                                                         *)
(* Date.now() is a clock that never goes back and may tick between two     *)
(* calls; a GET /api/posts keeps its answer; a request that no route       *)
(* matches (the client's dislike requests) falls to the static files.  A   *)
(* client may close its connection while its task is enqueued or running,  *)
(* and the :id segment of a path is decoded by decodeURIComponent, which   *)
(* throws for a malformed escape.                                          *)
(*                                                                         *)
(* The browser client of src/public/main.js and src/unnamed/part_000 is    *)
(* one page showing one post: the like and dislike flags of localStorage,  *)
(* the counts written in the page, the posts cached by loadPosts(), and    *)
(* the toggles whose request has not been answered yet.  A re-render of    *)
(* the list replaces the elements a pending toggle has captured.           *)
(***************************************************************************)
EXTENDS Integers, Sequences, FiniteSets, TLC

\* ------------------------------------------------------------------ bounds
MaxReqs == 2        \* requests received over a run, of any kind
MaxLikes == 4       \* requests received over a run of likes and unlikes
MaxCrashReqs == 2   \* requests received over a run with crashes
MaxIOErrors == 1    \* file-system calls of writePostsAtomic that fail
MaxCrashes == 1     \* times the process is killed
MaxApiReqs == 1     \* requests received over a run with a running clock
MaxTime == 2        \* the latest millisecond Date.now() returns
MaxRand == 1        \* the largest Math.floor(Math.random() * 1000) drawn
MaxEdits == 2       \* requests received over a run of edits of one post
MaxDeleteReqs == 3  \* requests received over a run of creates and deletes
MaxToggles == 1     \* like and dislike toggles of the user over a run
MaxCount == 2       \* the largest count shown or stored when the page loads
MaxDropReqs == 2    \* requests received over a run with dropped connections
MaxClicks == 2      \* clicks on the heart of one post over a run
MaxPathReqs == 1    \* requests received over a run with ids to decode
MaxFrameReqs == 2   \* requests received over a run on a file of three posts

\* ------------------------------------------------------------------- text
\* A JSON string is a sequence of characters; Absent stands for a field that
\* is missing from the body or is not a string (typeof x !== 'string').
Absent == <<"undefined">>
IsString(x) == x # Absent

\* String.prototype.trim: leading and trailing white space removed.
RECURSIVE TrimLeft(_)
TrimLeft(s) == IF s # <<>> /\ Head(s) = " " THEN TrimLeft(Tail(s)) ELSE s
RECURSIVE TrimRight(_)
TrimRight(s) ==
    IF s # <<>> /\ s[Len(s)] = " " THEN TrimRight(SubSeq(s, 1, Len(s) - 1)) ELSE s
Trim(s) == TrimRight(TrimLeft(s))

\* ------------------------------------------------------------------- disk
\* A file is missing, holds a JSON document (an array of posts), or holds a
\* prefix of a document that does not parse (a write that was cut short).
MissingFile == [st |-> "missing", posts |-> <<>>]
PartialFile == [st |-> "partial", posts |-> <<>>]
JsonFile(ps) == [st |-> "json", posts |-> ps]

\* readPosts after ensurePostsFile: the parsed array, [] when JSON.parse throws.
\* (ParsePostsSalvaged: a readPosts that answers a stored copy of post p1
\* when the file does not parse.)
ParsePostsSalvaged(f) ==
    IF f.st = "json" THEN f.posts
    ELSE <<[id |-> "p1", title |-> <<"a">>, content |-> <<>>, author |-> <<>>,
            createdAt |-> 1, updatedAt |-> 1, likes |-> 0, comments |-> <<>>]>>
ParsePosts(f) == IF f.st = "json" THEN f.posts ELSE <<>>

\* ensurePostsFile: a missing file is created holding "[]".
EnsuredFile(f) == IF f.st = "missing" THEN JsonFile(<<>>) ELSE f


\* ------------------------------------------------------------------ posts
NoId == "none"

\* String(Date.now()) + Math.floor(Math.random() * 1000), for Date.now() = t
\* and the random number k.
Rands == 0..MaxRand
NewId(t, k) == ToString(t) \o ToString(k)
Anonymous == <<"A", "n", "o", "n", "y", "m", "o", "u", "s">>

\* The object the create task pushes.
NewPost(id, title, content, author, createdAt, updatedAt) ==
    [id |-> id, title |-> title, content |-> content, author |-> author,
     likes |-> 0, createdAt |-> createdAt, updatedAt |-> updatedAt,
     comments |-> <<>>]

\* posts.findIndex(p => String(p.id) == id): the first match, 0 for JS's -1.
FindIndex(posts, id) ==
    IF \E i \in 1..Len(posts) : posts[i].id = id
    THEN CHOOSE i \in 1..Len(posts) :
            posts[i].id = id /\ \A j \in 1..(i - 1) : posts[j].id # id
    ELSE 0

Max(a, b) == IF a >= b THEN a ELSE b

\* method === 'POST' ? +1 : -1
\* (LikeDeltaDouble: a like that counts twice.)
LikeDeltaDouble(op) == IF op = "like" THEN 2 ELSE -1
LikeDelta(op) == IF op = "like" THEN 1 ELSE -1

\* Math.max(0, Number(posts[idx].likes || 0) + delta)
\* (NewLikesUnclamped: the same without the floor at zero.)
NewLikesUnclamped(likes, delta) == likes + delta
NewLikes(likes, delta) == Max(0, likes + delta)

\* The fields the create handler takes from the body.
CreateTitle(body) == Trim(body.title)
CreateContent(body) == IF IsString(body.content) THEN body.content ELSE <<>>
CreateAuthor(body) == IF IsString(body.author) THEN body.author ELSE Anonymous

\* !body || typeof body.title !== 'string' || !body.title.trim()
\* (TitleMissingUntrimmed: the test without .trim().)
TitleMissingUntrimmed(body) == ~IsString(body.title) \/ body.title = <<>>
TitleMissing(body) == ~IsString(body.title) \/ Trim(body.title) = <<>>

\* The comment object of the add-comment task, created at time t.
NewComment(body, t) ==
    [author |-> IF IsString(body.author) /\ Trim(body.author) # <<>>
                THEN Trim(body.author) ELSE Anonymous,
     content |-> IF IsString(body.content) THEN body.content ELSE <<>>,
     createdAt |-> t]

\* The update task on the post p at time t: the fields of the body that are
\* strings, and updatedAt. (UpdatedPostWhole: every field taken from the body;
\* UpdatedPostStale: updatedAt left as it was; UpdatedPostRestamped: createdAt
\* set as well.)
UpdatedPostRestamped(p, body, t) ==
    [p EXCEPT !.title = IF IsString(body.title) THEN body.title ELSE @,
              !.content = IF IsString(body.content) THEN body.content ELSE @,
              !.author = IF IsString(body.author) THEN body.author ELSE @,
              !.createdAt = t,
              !.updatedAt = t]
UpdatedPostStale(p, body, t) ==
    [p EXCEPT !.title = IF IsString(body.title) THEN body.title ELSE @,
              !.content = IF IsString(body.content) THEN body.content ELSE @,
              !.author = IF IsString(body.author) THEN body.author ELSE @]
UpdatedPostWhole(p, body, t) ==
    [p EXCEPT !.title = IF IsString(body.title) THEN body.title ELSE <<>>,
              !.content = IF IsString(body.content) THEN body.content ELSE <<>>,
              !.author = IF IsString(body.author) THEN body.author ELSE <<>>,
              !.updatedAt = t]
UpdatedPost(p, body, t) ==
    [p EXCEPT !.title = IF IsString(body.title) THEN body.title ELSE @,
              !.content = IF IsString(body.content) THEN body.content ELSE @,
              !.author = IF IsString(body.author) THEN body.author ELSE @,
              !.updatedAt = t]

\* The comment task on the post p: the comment pushed, created at ts[1], and
\* updatedAt = ts[2]. (WithOnlyComment: posts[idx].comments = [comment].)
WithOnlyComment(p, body, ts) ==
    [p EXCEPT !.comments = <<NewComment(body, ts[1])>>, !.updatedAt = ts[2]]
WithComment(p, body, ts) ==
    [p EXCEPT !.comments = Append(@, NewComment(body, ts[1])), !.updatedAt = ts[2]]

\* (MutateSpliceRest: the delete task with posts.splice(idx), which removes
\* the post and all that follow it.)
MutateSpliceRest(op, id, body, posts, idx, ts) ==
    CASE op = "create" ->
            Append(posts, NewPost(id, CreateTitle(body), CreateContent(body),
                                  CreateAuthor(body), ts[1], ts[2]))
      [] op = "update" ->
            [posts EXCEPT ![idx] = UpdatedPost(@, body, ts[2])]
      [] op = "delete" ->
            SubSeq(posts, 1, idx - 1)
      [] op \in {"like", "unlike"} ->
            [posts EXCEPT ![idx] = [@ EXCEPT !.likes = NewLikes(@, LikeDelta(op)),
                                             !.updatedAt = ts[2]]]
      [] op = "comment" ->
            [posts EXCEPT ![idx] = WithComment(@, body, ts)]

\* What a task does to the array it read, for a post found at idx (create
\* has no idx): the array it hands to writePostsAtomic. ts holds the values of
\* its Date.now() calls: ts[1] for createdAt, ts[2] for updatedAt.
Mutate(op, id, body, posts, idx, ts) ==
    CASE op = "create" ->
            Append(posts, NewPost(id, CreateTitle(body), CreateContent(body),
                                  CreateAuthor(body), ts[1], ts[2]))
      [] op = "update" ->
            [posts EXCEPT ![idx] = UpdatedPost(@, body, ts[2])]
      [] op = "delete" ->
            SubSeq(posts, 1, idx - 1) \o SubSeq(posts, idx + 1, Len(posts))
      [] op \in {"like", "unlike"} ->
            [posts EXCEPT ![idx] = [@ EXCEPT !.likes = NewLikes(@, LikeDelta(op)),
                                             !.updatedAt = ts[2]]]
      [] op = "comment" ->
            [posts EXCEPT ![idx] = WithComment(@, body, ts)]

\* Whether the task answers 404 and returns without writing. (NotFoundButDelete:
\* the delete task without its idx === -1 test.)
NotFoundButDelete(op, id, posts) ==
    op \notin {"create", "delete"} /\ FindIndex(posts, id) = 0
NotFound(op, id, posts) == op # "create" /\ FindIndex(posts, id) = 0

\* The status a handler answers when its task wrote the file ...
OkStatus(op) ==
    CASE op \in {"create", "comment"} -> 201
      [] op = "delete" -> 204
      [] OTHER -> 200

\* ... and when the task threw: the handlers of delete and like/unlike end
\* in .catch(err => 500), those of create, update and comment in catch (e) => 400.
ErrStatus(op) == IF op \in {"delete", "like", "unlike"} THEN 500 ELSE 400

\* ------------------------------------------------------------------ state
VARIABLES
    file,       \* POSTS_FILE on disk
    tmp,        \* POSTS_FILE + '.tmp' on disk
    alive,      \* the server process is running
    reqs,       \* the requests received so far, in order of arrival
    pending,    \* `pending`: the request whose run.catch() it is, 0 for a resolved promise
    chain,      \* the requests passed to queue(), in the order of the calls
    file0,      \* the posts file when the server first started
    ioErrors,   \* failed file-system calls so far
    crashes,    \* kills so far
    now,        \* the value of the latest Date.now() call
    got,        \* the answer to the latest GET /api/posts
    client      \* a browser showing one post: flags, counts, toggles under way

vars == <<file, tmp, alive, reqs, pending, chain, file0, ioErrors, crashes, now,
          got, client>>
server == <<file, tmp, alive, reqs, pending, chain, file0, ioErrors, crashes, now, got>>

\* The bodies and requests the clients send.
NoBody == [title |-> Absent, content |-> Absent, author |-> Absent,
           imageUrl |-> Absent]

\* The handler the server picks for a method and a path (its segments, as
\* pathname.split('/').filter(Boolean) gives them): the first route that
\* matches, "static" when none does.
IsPostsPath(path, n) ==
    Len(path) = n /\ SubSeq(path, 1, 2) = <<"api", "posts">>
Handler(method, path) ==
    CASE IsPostsPath(path, 2) /\ method = "GET" -> "list"
      [] IsPostsPath(path, 2) /\ method = "POST" -> "create"
      [] IsPostsPath(path, 3) /\ method = "PUT" -> "update"
      [] IsPostsPath(path, 3) /\ method = "DELETE" -> "delete"
      [] IsPostsPath(path, 4) /\ path[4] = "like" /\ method = "POST" -> "like"
      [] IsPostsPath(path, 4) /\ path[4] = "like" /\ method = "DELETE" -> "unlike"
      [] IsPostsPath(path, 4) /\ path[4] = "comments" /\ method = "POST" -> "comment"
      [] OTHER -> "static"

\* decodeURIComponent(segment), for the segments the clients send: "p%31" is
\* "p1" with its digit percent-encoded, "%" a malformed escape, for which the
\* call throws a URIError; a segment with no escape is returned as it is.
URIError == "URIError: URI malformed"
DecodeURIComponent(segment) ==
    CASE segment = "p%31" -> "p1"
      [] segment = "%" -> URIError
      [] OTHER -> segment

\* A request: its handler (op), the :id of its path, and its JSON body.
Request(method, path, body) ==
    [op |-> Handler(method, path),
     id |-> IF Len(path) >= 3 THEN DecodeURIComponent(path[3]) ELSE NoId,
     body |-> body, method |-> method, path |-> path]

Posts == <<"api", "posts">>
Requests ==
    {Request("POST", Posts, [NoBody EXCEPT !.title = <<"a">>]),
     Request("POST", Posts, [NoBody EXCEPT !.title = <<" ">>]),
     Request("PUT", Posts \o <<"p1">>, [NoBody EXCEPT !.title = <<"b">>]),
     Request("POST", Posts \o <<"p1", "comments">>, [NoBody EXCEPT !.content = <<"a">>]),
     Request("DELETE", Posts \o <<"p1">>, NoBody),
     Request("POST", Posts \o <<"p1", "like">>, NoBody),
     Request("DELETE", Posts \o <<"p1", "like">>, NoBody)}

\* The posts files the server may find at its first start.
InitPosts ==
    {<<>>,
     <<NewPost("p1", <<"a">>, <<>>, Anonymous, 1, 1)>>,
     <<[NewPost("p1", <<"a">>, <<>>, Anonymous, 1, 1) EXCEPT !.likes = 1]>>}
InitFiles == {MissingFile} \cup {JsonFile(ps) : ps \in InitPosts}

\* A request as the server holds it: where its handler stands (pc), the promise
\* `run` of its task, the `pending` its task was chained to (prev), the array
\* `posts` of its task, the status answered (0: none yet), and two records of
\* the past: the file its task read (base) and whether its rename happened.
\* ts holds what the task's Date.now() calls returned, reply the body answered,
\* connected whether the client's connection is still open, answers the
\* number of res.writeHead() calls made for it.
NewReq(rq) ==
    [op |-> rq.op, id |-> rq.id, body |-> rq.body, method |-> rq.method,
     path |-> rq.path, pc |-> "body", run |-> "none",
     prev |-> 0, posts |-> <<>>, status |-> 0, base |-> MissingFile,
     persisted |-> FALSE, ts |-> <<>>, reply |-> <<>>, connected |-> TRUE,
     answers |-> 0]

\* No GET /api/posts has been answered. An answer holds its status (0 while
\* there is none), the array sent, what the posts file was when the request
\* came (saw), and whether readPosts() threw.
NoAnswer == [status |-> 0, posts |-> <<>>, saw |-> "none", raised |-> FALSE]

\* ----------------------------------------------------------------- client
\* The text of a count element and the number the client reads from it:
\* String(n); Number(text || 0) and parseInt(text || '0', 10) || 0.
Shown == (0 - MaxToggles - 1)..(MaxCount + MaxToggles + MaxClicks)
Text(n) == ToString(n)
NumberOf(text) ==
    IF text = "" THEN 0 ELSE CHOOSE n \in Shown : ToString(n) = text
ParseInt(text) ==
    IF text = "" \/ NumberOf(text) = 0 THEN 0 ELSE NumberOf(text)

\* The page after it has loaded, for one post: the local flags (liked:<id>,
\* disliked:<id>, and likedPostIds of the like-only client), the count
\* elements, the button toggleLike is given (its text holds 'Liked' or 'Like'
\* and a count), the likes of the post in STATE_POSTS (cached), the likes the
\* server holds, and the toggles the user has made.
Page(flag, n, likes) ==
    [liked |-> flag, disliked |-> flag, likedSet |-> flag,
     likeText |-> Text(n), dislikeText |-> Text(n), countText |-> Text(n),
     button |-> [liked |-> flag, count |-> n], cached |-> n,
     likes |-> likes, toggles |-> <<>>]

\* A toggle under way: its handler (path), the flag and the count it read
\* (was, cur), the text its count element showed (before), whether that
\* element is still in the document (attached), the state of its request
\* (pc), and the requests it has sent and the alerts it has raised.
NewToggle(path, was, cur, before) ==
    [path |-> path, was |-> was, cur |-> cur, before |-> before,
     attached |-> TRUE, pc |-> "sent", requests |-> 1, alerts |-> 0, reply |-> -1]

\* The count shown at once: Math.max(0, cur + (next ? 1 : -1)).
Optimistic(cur, next) == Max(0, cur + (IF next THEN 1 ELSE -1))

\* The request a toggle sends, and whether the server has a route for it.
TogglePath(path) ==
    Posts \o <<"p1", IF path = "dislike" THEN "dislike" ELSE "like">>
Served(path, next) ==
    Handler(IF next THEN "POST" ELSE "DELETE", TogglePath(path)) # "static"

HasBody(op) == op \in {"create", "update", "comment"}
Settled(r) == reqs[r].run \in {"fulfilled", "rejected"}

Init ==
    /\ file \in InitFiles
    /\ tmp = MissingFile
    /\ alive = TRUE
    /\ reqs = <<>>
    /\ pending = 0
    /\ chain = <<>>
    /\ file0 = file
    /\ ioErrors = 0
    /\ crashes = 0
    /\ now = 1
    /\ got = NoAnswer
    /\ client = Page(FALSE, 0, 0)

\* ------------------------------------------------------------------ queue
\* queue(task): run = pending.then(task, task); pending = run.catch(() => {}).
\* The request r of the task is chained to the current `pending` and becomes it.
Queue(rs, r) ==
    /\ reqs' = [rs EXCEPT ![r] = [@ EXCEPT !.pc = "queued", !.run = "pending",
                                           !.prev = pending]]
    /\ pending' = r
    /\ chain' = Append(chain, r)

\* pending.then(task, task) calls the task once the promise it was chained to
\* has settled, fulfilled or rejected alike; run.catch() settles when run does.
\* (QueueReadyUnchained: a task run without waiting for `pending`;
\* QueueReadyFulfilledOnly: pending = pending.then(task), a chain that a
\* rejection breaks.)
QueueReadyUnchained(r) == TRUE
QueueReadyFulfilledOnly(r) ==
    IF reqs[r].prev = 0 THEN TRUE ELSE reqs[reqs[r].prev].run = "fulfilled"
QueueReady(r) == IF reqs[r].prev = 0 THEN TRUE ELSE Settled(reqs[r].prev)


\* --------------------------------------------------------------- handlers
\* A create, update or comment request arrives: its handler awaits readJsonBody.
ReceiveWithBody(rq, limit) ==
    /\ alive /\ Len(reqs) < limit /\ HasBody(rq.op) /\ rq.id # URIError
    /\ reqs' = Append(reqs, NewReq(rq))
    /\ UNCHANGED <<file, tmp, alive, pending, chain, file0, ioErrors, crashes, now, got, client>>

\* A delete, like or unlike request arrives: its handler calls queue() at once.
ReceiveNoBody(rq, limit) ==
    /\ alive /\ Len(reqs) < limit /\ rq.op \in {"delete", "like", "unlike"}
    /\ rq.id # URIError
    /\ Queue(Append(reqs, NewReq(rq)), Len(reqs) + 1)
    /\ UNCHANGED <<file, tmp, alive, file0, ioErrors, crashes, now, got, client>>

\* The body has been read: create answers 400 for a missing title, or else the
\* handler calls queue().
BodyRead(r) ==
    /\ alive /\ reqs[r].pc = "body"
    /\ IF reqs[r].op = "create" /\ TitleMissing(reqs[r].body)
       THEN /\ reqs' = [reqs EXCEPT ![r].pc = "done", ![r].status = 400,
                                         ![r].answers = @ + 1]
            /\ UNCHANGED <<pending, chain, client>>
       ELSE Queue(reqs, r)
    /\ UNCHANGED <<file, tmp, alive, file0, ioErrors, crashes, now, got, client>>

\* The Date.now() calls of a task, in order: one for the id (create), one for
\* createdAt (create, and the comment's), one for updatedAt (all but delete).
\* Each returns the time of the call before it or a later one, up to latest.
ClockReads(op, from, latest) ==
    {t \in (from..latest) \X (from..latest) \X (from..latest) :
        /\ t[1] <= t[2] /\ t[2] <= t[3]
        /\ op # "create" => t[1] = from
        /\ op \in {"update", "like", "unlike"} => t[2] = t[3]
        /\ op = "delete" => t[3] = from}

\* The task starts: readPosts() (with ensurePostsFile), then either the 404
\* answer or the new array, ready for writePostsAtomic. The create task draws
\* its id, String(Date.now()) + Math.floor(Math.random() * 1000).
TaskStart(r, latest) ==
    /\ alive /\ reqs[r].pc = "queued" /\ QueueReady(r)
    /\ file' = EnsuredFile(file)
    /\ LET posts == ParsePosts(file')
           op == reqs[r].op
       IN IF NotFound(op, reqs[r].id, posts)
          THEN /\ reqs' = [reqs EXCEPT ![r] =
                    [@ EXCEPT !.pc = "done", !.status = 404, !.run = "fulfilled",
                              !.answers = @ + 1]]
               /\ now' = now
          ELSE \E t \in ClockReads(op, now, latest) :
               \E k \in (IF op = "create" THEN Rands ELSE {0}) :
                  LET id == IF op = "create" THEN NewId(t[1], k) ELSE reqs[r].id
                  IN /\ reqs' = [reqs EXCEPT ![r] =
                          [@ EXCEPT !.pc = "write", !.id = id, !.base = file',
                                    !.ts = <<t[2], t[3]>>,
                                    !.posts = Mutate(op, id, reqs[r].body, posts,
                                                     FindIndex(posts, id),
                                                     <<t[2], t[3]>>)]]
                     /\ now' = t[3]
    /\ UNCHANGED <<tmp, alive, pending, chain, file0, ioErrors, crashes, got, client>>

\* writePostsAtomic, fs.writeFileSync(tmp, ...): the temporary file is opened
\* (created or truncated) ...
\* (WriteOpenInPlace: the same with POSTS_FILE opened instead of tmp.)
WriteOpenInPlace(r) ==
    /\ alive /\ reqs[r].pc = "write"
    /\ file' = PartialFile
    /\ reqs' = [reqs EXCEPT ![r].pc = "tmpOpen"]
    /\ UNCHANGED <<tmp, alive, pending, chain, file0, ioErrors, crashes, now, got, client>>
WriteOpen(r) ==
    /\ alive /\ reqs[r].pc = "write"
    /\ tmp' = PartialFile
    /\ reqs' = [reqs EXCEPT ![r].pc = "tmpOpen"]
    /\ UNCHANGED <<file, alive, pending, chain, file0, ioErrors, crashes, now, got, client>>

\* ... and JSON.stringify(posts) is written to it.
WriteData(r) ==
    /\ alive /\ reqs[r].pc = "tmpOpen"
    /\ tmp' = JsonFile(reqs[r].posts)
    /\ reqs' = [reqs EXCEPT ![r].pc = "tmpFull"]
    /\ UNCHANGED <<file, alive, pending, chain, file0, ioErrors, crashes, now, got, client>>

\* writePostsAtomic, fs.renameSync(tmp, POSTS_FILE).
Rename(r) ==
    /\ alive /\ reqs[r].pc = "tmpFull"
    /\ file' = tmp
    /\ tmp' = MissingFile
    /\ reqs' = [reqs EXCEPT ![r].pc = "renamed", ![r].persisted = TRUE]
    /\ UNCHANGED <<alive, pending, chain, file0, ioErrors, crashes, now, got, client>>

\* The body of a 2xx answer: {id, likes: posts[idx].likes} for like and unlike
\* (as the pair <<id, likes>>); for the rest {ok: true} or nothing, here <<>>.
\* (ReplyGuessed: the count sent is the one read plus delta.)
ReplyGuessed(r) ==
    IF reqs[r].op \in {"like", "unlike"}
    THEN <<reqs[r].id,
           ParsePosts(reqs[r].base)[FindIndex(ParsePosts(reqs[r].base), reqs[r].id)].likes
               + LikeDelta(reqs[r].op)>>
    ELSE <<>>
Reply(r) ==
    IF reqs[r].op \in {"like", "unlike"}
    THEN <<reqs[r].id, reqs[r].posts[FindIndex(reqs[r].posts, reqs[r].id)].likes>>
    ELSE <<>>

\* The file is written: the response is sent and the task's promise fulfilled.
\* (RespondBeforeWrite: a handler that answers before writePostsAtomic.)
RespondBeforeWrite(r) ==
    /\ alive /\ reqs[r].pc = "write"
    /\ reqs' = [reqs EXCEPT ![r] = [@ EXCEPT !.pc = "done", !.run = "fulfilled",
                                              !.status = OkStatus(reqs[r].op),
                                              !.answers = @ + 1,
                                              !.reply = Reply(r),
                                              !.posts = <<>>, !.base = MissingFile]]
    /\ UNCHANGED <<file, tmp, alive, pending, chain, file0, ioErrors, crashes, now, got, client>>
Respond(r) ==
    /\ alive /\ reqs[r].pc = "renamed"
    /\ reqs' = [reqs EXCEPT ![r] = [@ EXCEPT !.pc = "done", !.run = "fulfilled",
                                              !.status = OkStatus(reqs[r].op),
                                              !.answers = @ + 1,
                                              !.reply = Reply(r),
                                              !.posts = <<>>, !.base = MissingFile]]
    /\ UNCHANGED <<file, tmp, alive, pending, chain, file0, ioErrors, crashes, now, got, client>>

\* A file-system call of writePostsAtomic throws (the open, the write or the
\* rename): the task's promise is rejected and the handler's catch answers.
WriteFails(r) ==
    /\ alive /\ reqs[r].pc \in {"write", "tmpOpen", "tmpFull"}
    /\ ioErrors < MaxIOErrors
    /\ ioErrors' = ioErrors + 1
    /\ reqs' = [reqs EXCEPT ![r] = [@ EXCEPT !.pc = "failed", !.run = "rejected",
                                              !.status = ErrStatus(reqs[r].op),
                                              !.answers = @ + 1,
                                              !.posts = <<>>, !.base = MissingFile]]
    /\ UNCHANGED <<file, tmp, alive, pending, chain, file0, crashes, now, got, client>>

\* GET /api/posts: readPosts() outside the queue.
List ==
    /\ alive
    /\ file' = EnsuredFile(file)
    /\ UNCHANGED <<tmp, alive, reqs, pending, chain, file0, ioErrors, crashes, now, got, client>>

\* .slice().sort((a, b) => (b.createdAt || 0) - (a.createdAt || 0)): newest
\* first, posts of one createdAt in the order of the file (the sort is stable).
RECURSIVE SortNewestFirst(_)
SortNewestFirst(ps) ==
    IF ps = <<>> THEN <<>>
    ELSE LET s == SortNewestFirst(Tail(ps))
             n == Cardinality({i \in 1..Len(s) : s[i].createdAt > Head(ps).createdAt})
         IN SubSeq(s, 1, n) \o <<Head(ps)>> \o SubSeq(s, n + 1, Len(s))

\* GET /api/posts, with the answer kept: 200 and the posts read, sorted.
Get ==
    /\ alive
    /\ file' = EnsuredFile(file)
    /\ got' = [status |-> 200, posts |-> SortNewestFirst(ParsePosts(file')),
               saw |-> file.st, raised |-> FALSE]
    /\ UNCHANGED <<tmp, alive, reqs, pending, chain, file0, ioErrors, crashes, now, client>>

\* GET /api/posts finds no posts file and fs.writeFileSync(POSTS_FILE, '[]')
\* (or mkdirSync) of ensurePostsFile throws: the call is outside the try of
\* readPosts, which throws; the handler's promise is rejected and unhandled,
\* no answer is sent, and the process goes on or exits (by Node's
\* --unhandled-rejections mode).
GetEnsureFails ==
    /\ alive /\ ioErrors < MaxIOErrors
    /\ file.st = "missing"
    /\ ioErrors' = ioErrors + 1
    /\ got' = [status |-> 0, posts |-> <<>>, saw |-> file.st, raised |-> TRUE]
    /\ alive' \in BOOLEAN
    /\ UNCHANGED <<file, tmp, reqs, pending, chain, file0, crashes, now, client>>

\* A request of a mutating route arrives whose :id segment does not decode.
\* The update and comment handlers call decodeURIComponent inside their try,
\* and their catch answers 400. The delete and like/unlike handlers call it
\* before queue(), outside any try: the async request listener's promise is
\* rejected and unhandled, nothing is answered, and the process goes on or
\* exits (by Node's --unhandled-rejections mode).
ReceiveMalformed(rq, limit) ==
    /\ alive /\ Len(reqs) < limit /\ rq.id = URIError
    /\ rq.op \in {"update", "comment", "delete", "like", "unlike"}
    /\ IF rq.op \in {"update", "comment"}
       THEN /\ reqs' = Append(reqs, [NewReq(rq) EXCEPT !.pc = "done", !.status = 400,
                                                       !.answers = 1])
            /\ alive' = alive
       ELSE /\ reqs' = Append(reqs, [NewReq(rq) EXCEPT !.pc = "unhandled"])
            /\ alive' \in BOOLEAN
    /\ UNCHANGED <<file, tmp, pending, chain, file0, ioErrors, crashes, now, got, client>>

\* readJsonBody rejects (the body is not JSON, or is too large): the catch of
\* the create, update or comment handler answers 400.
BodyInvalid(r) ==
    /\ alive /\ reqs[r].pc = "body"
    /\ reqs' = [reqs EXCEPT ![r].pc = "done", ![r].status = 400,
                            ![r].answers = @ + 1]
    /\ UNCHANGED <<file, tmp, alive, pending, chain, file0, ioErrors, crashes, now, got, client>>

\* A request no route matches falls to tryServeStatic; the static directories
\* hold no file under /api, and the answer is 404 'Not found'.
ReceiveStatic(rq, limit) ==
    /\ alive /\ Len(reqs) < limit /\ rq.op = "static"
    /\ reqs' = Append(reqs, [NewReq(rq) EXCEPT !.pc = "done", !.status = 404,
                                              !.answers = 1])
    /\ UNCHANGED <<file, tmp, alive, pending, chain, file0, ioErrors, crashes, now, got, client>>

\* The client of a request whose task is enqueued drops the connection. No
\* handler listens for 'close' or 'aborted' once the body is read, and res
\* takes writeHead() and end() on a closed socket without throwing: the
\* request only stops having a client. (DroppedAborts: a handler that gives
\* the task up when the connection closes.)
DroppedAborts(q) == [q EXCEPT !.connected = FALSE, !.pc = "lost", !.posts = <<>>]
Dropped(q) == [q EXCEPT !.connected = FALSE]
Disconnect(r) ==
    /\ alive /\ reqs[r].connected
    /\ reqs[r].pc \notin {"body", "done", "failed", "lost"}
    /\ reqs' = [reqs EXCEPT ![r] = Dropped(@)]
    /\ UNCHANGED <<file, tmp, alive, pending, chain, file0, ioErrors, crashes, now, got, client>>

\* ---------------------------------------------------------------- crashes
\* The process is killed between two steps.
Crash ==
    /\ alive /\ crashes < MaxCrashes
    /\ alive' = FALSE
    /\ crashes' = crashes + 1
    /\ UNCHANGED <<file, tmp, reqs, pending, chain, file0, ioErrors, now, got, client>>

\* A readPosts() call (of GET /api/posts or of a task) finds no posts file,
\* and the process is killed inside ensurePostsFile, between the open and the
\* write of fs.writeFileSync(POSTS_FILE, '[]'): the file exists and is empty.
EnsureCrash ==
    /\ alive /\ crashes < MaxCrashes
    /\ file.st = "missing"
    /\ file' = PartialFile
    /\ alive' = FALSE
    /\ crashes' = crashes + 1
    /\ UNCHANGED <<tmp, reqs, pending, chain, file0, ioErrors, now, got, client>>

\* The process is started again: `pending` is a resolved promise, and the
\* requests the old process had not answered are lost.
Restart ==
    /\ ~alive
    /\ alive' = TRUE
    /\ pending' = 0
    /\ reqs' = [r \in DOMAIN reqs |->
                  IF reqs[r].pc \in {"done", "failed"} THEN reqs[r]
                  ELSE [reqs[r] EXCEPT !.pc = "lost", !.posts = <<>>,
                                       !.base = MissingFile]]
    /\ UNCHANGED <<file, tmp, chain, file0, ioErrors, crashes, now, got, client>>

\* The server with every handler, and file-system calls that may fail. (Here
\* and in the next two, the clock stands still: Date.now() returns `now`.)
Next ==
    \/ \E rq \in Requests : ReceiveWithBody(rq, MaxReqs)
    \/ \E rq \in Requests : ReceiveNoBody(rq, MaxReqs)
    \/ \E r \in DOMAIN reqs : BodyRead(r)
    \/ \E r \in DOMAIN reqs : TaskStart(r, now)
    \/ \E r \in DOMAIN reqs : WriteOpen(r)
    \/ \E r \in DOMAIN reqs : WriteData(r)
    \/ \E r \in DOMAIN reqs : Rename(r)
    \/ \E r \in DOMAIN reqs : Respond(r)
    \/ \E r \in DOMAIN reqs : WriteFails(r)
    \/ List

Spec == Init /\ [][Next]_vars

HasPost(f, id) == FindIndex(ParsePosts(f), id) # 0

\* The server receiving only likes and unlikes of post p1.
LikeRequests == {rq \in Requests : rq.op \in {"like", "unlike"}}

NextLikes ==
    \/ \E rq \in LikeRequests : ReceiveNoBody(rq, MaxLikes)
    \/ \E r \in DOMAIN reqs : TaskStart(r, now)
    \/ \E r \in DOMAIN reqs : WriteOpen(r)
    \/ \E r \in DOMAIN reqs : WriteData(r)
    \/ \E r \in DOMAIN reqs : Rename(r)
    \/ \E r \in DOMAIN reqs : Respond(r)
    \/ \E r \in DOMAIN reqs : WriteFails(r)

SpecLikes == Init /\ [][NextLikes]_vars

\* The same, for a post p1 whose likes in the file are any count at the start.
InitCounts ==
    /\ \E n \in 0..MaxCount :
         file = JsonFile(<<[NewPost("p1", <<"a">>, <<>>, Anonymous, 1, 1)
                              EXCEPT !.likes = n]>>)
    /\ tmp = MissingFile
    /\ alive = TRUE
    /\ reqs = <<>>
    /\ pending = 0
    /\ chain = <<>>
    /\ file0 = file
    /\ ioErrors = 0
    /\ crashes = 0
    /\ now = 1
    /\ got = NoAnswer
    /\ client = Page(FALSE, 0, 0)

SpecCounts == InitCounts /\ [][NextLikes]_vars

\* The server killed and started again while it handles requests.
CrashRequests == {rq \in Requests : rq.op \in {"create", "like", "delete"}}

NextCrash ==
    \/ \E rq \in CrashRequests : ReceiveWithBody(rq, MaxCrashReqs)
    \/ \E rq \in CrashRequests : ReceiveNoBody(rq, MaxCrashReqs)
    \/ \E r \in DOMAIN reqs : BodyRead(r)
    \/ \E r \in DOMAIN reqs : TaskStart(r, now)
    \/ \E r \in DOMAIN reqs : WriteOpen(r)
    \/ \E r \in DOMAIN reqs : WriteData(r)
    \/ \E r \in DOMAIN reqs : Rename(r)
    \/ \E r \in DOMAIN reqs : Respond(r)
    \/ \E r \in DOMAIN reqs : WriteFails(r)
    \/ List
    \/ Crash
    \/ EnsureCrash
    \/ Restart

SpecCrash == Init /\ [][NextCrash]_vars

\* The server as its API is used, with a running clock: posts are created
\* with every kind of field, updated, liked and listed, and the client's
\* dislike requests arrive. The posts file may be unreadable or unparsable.
UnreadableFile == [st |-> "unreadable", posts |-> <<>>]
ApiFiles == InitFiles \cup {UnreadableFile, PartialFile}
ApiRequests ==
    {Request("POST", Posts, [NoBody EXCEPT !.title = <<"a">>]),
     Request("POST", Posts, [title |-> <<" ", "a">>, content |-> <<"c">>,
                             author |-> <<" ">>, imageUrl |-> <<"u">>]),
     Request("POST", Posts, [NoBody EXCEPT !.title = <<" ">>]),
     Request("POST", Posts, [NoBody EXCEPT !.content = <<"c">>]),
     Request("PUT", Posts \o <<"p1">>, [NoBody EXCEPT !.title = <<"b">>]),
     Request("PUT", Posts \o <<"p1">>, [NoBody EXCEPT !.content = <<"c">>,
                                                      !.author = <<"z">>]),
     Request("POST", Posts \o <<"p1", "like">>, NoBody),
     Request("DELETE", Posts \o <<"p1", "like">>, NoBody),
     Request("POST", Posts \o <<"p1", "comments">>, [NoBody EXCEPT !.content = <<"a">>]),
     Request("POST", Posts \o <<"p1", "comments">>, [NoBody EXCEPT !.content = <<" ">>]),
     Request("POST", Posts \o <<"p1", "comments">>, [NoBody EXCEPT !.author = <<"z">>]),
     Request("DELETE", Posts \o <<"p1">>, NoBody),
     Request("POST", Posts \o <<"p1", "dislike">>, NoBody),
     Request("DELETE", Posts \o <<"p1", "dislike">>, NoBody)}

InitApi ==
    /\ file \in ApiFiles
    /\ tmp = MissingFile
    /\ alive = TRUE
    /\ reqs = <<>>
    /\ pending = 0
    /\ chain = <<>>
    /\ file0 = file
    /\ ioErrors = 0
    /\ crashes = 0
    /\ now = 1
    /\ got = NoAnswer
    /\ client = Page(FALSE, 0, 0)

NextApi ==
    \/ \E rq \in ApiRequests : ReceiveWithBody(rq, MaxApiReqs)
    \/ \E rq \in ApiRequests : ReceiveNoBody(rq, MaxApiReqs)
    \/ \E rq \in ApiRequests : ReceiveStatic(rq, MaxApiReqs)
    \/ \E r \in DOMAIN reqs : BodyRead(r)
    \/ \E r \in DOMAIN reqs : TaskStart(r, MaxTime)
    \/ \E r \in DOMAIN reqs : WriteOpen(r)
    \/ \E r \in DOMAIN reqs : WriteData(r)
    \/ \E r \in DOMAIN reqs : Rename(r)
    \/ \E r \in DOMAIN reqs : Respond(r)
    \/ Get
    \/ GetEnsureFails

SpecApi == InitApi /\ [][NextApi]_vars

\* The server while the post p1 is edited, liked, unliked and commented, with
\* a running clock.
EditRequests ==
    {Request("PUT", Posts \o <<"p1">>, [NoBody EXCEPT !.title = <<"b">>]),
     Request("POST", Posts \o <<"p1", "comments">>, [NoBody EXCEPT !.content = <<"a">>]),
     Request("POST", Posts \o <<"p1", "like">>, NoBody),
     Request("DELETE", Posts \o <<"p1", "like">>, NoBody)}

NextEdits ==
    \/ \E rq \in EditRequests : ReceiveWithBody(rq, MaxEdits)
    \/ \E rq \in EditRequests : ReceiveNoBody(rq, MaxEdits)
    \/ \E r \in DOMAIN reqs : BodyRead(r)
    \/ \E r \in DOMAIN reqs : TaskStart(r, MaxTime)
    \/ \E r \in DOMAIN reqs : WriteOpen(r)
    \/ \E r \in DOMAIN reqs : WriteData(r)
    \/ \E r \in DOMAIN reqs : Rename(r)
    \/ \E r \in DOMAIN reqs : Respond(r)

SpecEdits == Init /\ [][NextEdits]_vars

\* The server while posts are created and the first id a create can assign
\* is deleted, liked and listed; the clock stands still.
FirstId == NewId(1, 0)
DeleteRequests ==
    {Request("POST", Posts, [NoBody EXCEPT !.title = <<"a">>]),
     Request("DELETE", Posts \o <<FirstId>>, NoBody),
     Request("POST", Posts \o <<FirstId, "like">>, NoBody)}

NextDelete ==
    \/ \E rq \in DeleteRequests : ReceiveWithBody(rq, MaxDeleteReqs)
    \/ \E rq \in DeleteRequests : ReceiveNoBody(rq, MaxDeleteReqs)
    \/ \E r \in DOMAIN reqs : BodyRead(r)
    \/ \E r \in DOMAIN reqs : TaskStart(r, now)
    \/ \E r \in DOMAIN reqs : WriteOpen(r)
    \/ \E r \in DOMAIN reqs : WriteData(r)
    \/ \E r \in DOMAIN reqs : Rename(r)
    \/ \E r \in DOMAIN reqs : Respond(r)
    \/ Get

SpecDelete == Init /\ [][NextDelete]_vars

\* The server while clients create posts and like p1 and drop their
\* connections; no file-system call fails and the clock stands still. A task
\* whose turn has come is run by the promise chain, and each of its
\* synchronous steps is followed by the next one.
DropRequests == {rq \in Requests : rq.op \in {"like", "unlike"}}
               \cup {Request("POST", Posts, [NoBody EXCEPT !.title = <<"a">>])}

InitDrop ==
    /\ Init
    /\ HasPost(file, "p1")

NextDrop ==
    \/ \E rq \in DropRequests : ReceiveWithBody(rq, MaxDropReqs)
    \/ \E rq \in DropRequests : ReceiveNoBody(rq, MaxDropReqs)
    \/ \E r \in DOMAIN reqs : BodyRead(r)
    \/ \E r \in DOMAIN reqs : TaskStart(r, now)
    \/ \E r \in DOMAIN reqs : WriteOpen(r)
    \/ \E r \in DOMAIN reqs : WriteData(r)
    \/ \E r \in DOMAIN reqs : Rename(r)
    \/ \E r \in DOMAIN reqs : Respond(r)
    \/ \E r \in DOMAIN reqs : Disconnect(r)

TaskStep(r) ==
    /\ r \in DOMAIN reqs
    /\ \/ TaskStart(r, now)
       \/ WriteOpen(r)
       \/ WriteData(r)
       \/ Rename(r)
       \/ Respond(r)

SpecDrop ==
    /\ InitDrop /\ [][NextDrop]_vars
    /\ \A r \in 1..MaxDropReqs : WF_vars(TaskStep(r))

\* The server receiving requests of every mutating route, with ids that are
\* percent-encoded or malformed, bodies that are not JSON and writes that
\* fail.
PathRequests ==
    {Request("POST", Posts, [NoBody EXCEPT !.title = <<"a">>]),
     Request("POST", Posts, [NoBody EXCEPT !.title = <<" ">>]),
     Request("PUT", Posts \o <<"p%31">>, [NoBody EXCEPT !.title = <<"b">>]),
     Request("PUT", Posts \o <<"%">>, [NoBody EXCEPT !.title = <<"b">>]),
     Request("POST", Posts \o <<"p1", "comments">>, [NoBody EXCEPT !.content = <<"a">>]),
     Request("POST", Posts \o <<"%", "comments">>, [NoBody EXCEPT !.content = <<"a">>]),
     Request("DELETE", Posts \o <<"p1">>, NoBody),
     Request("DELETE", Posts \o <<"%">>, NoBody),
     Request("POST", Posts \o <<"p%31", "like">>, NoBody),
     Request("POST", Posts \o <<"%", "like">>, NoBody),
     Request("DELETE", Posts \o <<"p1", "like">>, NoBody)}

NextPaths ==
    \/ \E rq \in PathRequests : ReceiveWithBody(rq, MaxPathReqs)
    \/ \E rq \in PathRequests : ReceiveNoBody(rq, MaxPathReqs)
    \/ \E rq \in PathRequests : ReceiveMalformed(rq, MaxPathReqs)
    \/ \E r \in DOMAIN reqs : BodyRead(r)
    \/ \E r \in DOMAIN reqs : BodyInvalid(r)
    \/ \E r \in DOMAIN reqs : TaskStart(r, now)
    \/ \E r \in DOMAIN reqs : WriteOpen(r)
    \/ \E r \in DOMAIN reqs : WriteData(r)
    \/ \E r \in DOMAIN reqs : Rename(r)
    \/ \E r \in DOMAIN reqs : Respond(r)
    \/ \E r \in DOMAIN reqs : WriteFails(r)

SpecPaths == Init /\ [][NextPaths]_vars

\* The server holding three posts while the one in the middle is updated,
\* liked, unliked, commented and deleted.
ThreePosts ==
    <<NewPost("p1", <<"a">>, <<>>, Anonymous, 1, 1),
      [NewPost("p2", <<"b">>, <<"c">>, <<"z">>, 1, 1) EXCEPT !.likes = 1],
      NewPost("p3", <<"c">>, <<>>, Anonymous, 1, 1)>>
FrameRequests ==
    {Request("PUT", Posts \o <<"p2">>, [NoBody EXCEPT !.title = <<"d">>]),
     Request("POST", Posts \o <<"p2", "comments">>, [NoBody EXCEPT !.content = <<"a">>]),
     Request("DELETE", Posts \o <<"p2">>, NoBody),
     Request("POST", Posts \o <<"p2", "like">>, NoBody),
     Request("DELETE", Posts \o <<"p2", "like">>, NoBody),
     Request("DELETE", Posts \o <<"p1">>, NoBody)}

InitFrame ==
    /\ file = JsonFile(ThreePosts)
    /\ tmp = MissingFile
    /\ alive = TRUE
    /\ reqs = <<>>
    /\ pending = 0
    /\ chain = <<>>
    /\ file0 = file
    /\ ioErrors = 0
    /\ crashes = 0
    /\ now = 1
    /\ got = NoAnswer
    /\ client = Page(FALSE, 0, 0)

NextFrame ==
    \/ \E rq \in FrameRequests : ReceiveWithBody(rq, MaxFrameReqs)
    \/ \E rq \in FrameRequests : ReceiveNoBody(rq, MaxFrameReqs)
    \/ \E r \in DOMAIN reqs : BodyRead(r)
    \/ \E r \in DOMAIN reqs : TaskStart(r, MaxTime)
    \/ \E r \in DOMAIN reqs : WriteOpen(r)
    \/ \E r \in DOMAIN reqs : WriteData(r)
    \/ \E r \in DOMAIN reqs : Rename(r)
    \/ \E r \in DOMAIN reqs : Respond(r)

SpecFrame == InitFrame /\ [][NextFrame]_vars

\* The server receiving likes and unlikes of p1 whose writes may fail, with
\* the promise chain running every task whose turn has come.
SpecQueue ==
    /\ Init /\ [][NextLikes]_vars
    /\ \A r \in 1..MaxLikes : WF_vars(TaskStep(r))

\* The state of the promise `pending`: run.catch(() => {}) is pending while
\* run is, and fulfilled once run has settled, by a result or by an error.
PendingPromise ==
    IF pending = 0 THEN "fulfilled"
    ELSE IF Settled(pending) THEN "fulfilled" ELSE "pending"

\* The browser: the user toggles the like and the dislike of a post, the
\* requests succeed or fail, the list is loaded again, and other browsers
\* like and unlike the post.
\* onPostsClick, [data-like]: the optimistic change, then the request.
OnPostsClickLikeUpTo(limit) ==
    /\ Len(client.toggles) < limit
    /\ LET wasLiked == client.liked
           cur == ParseInt(client.likeText)
       IN client' = [client EXCEPT
              !.likeText = Text(Optimistic(cur, ~wasLiked)),
              !.liked = ~wasLiked,
              !.toggles = Append(@, NewToggle("like", wasLiked, cur, client.likeText))]
    /\ UNCHANGED server
OnPostsClickLike == OnPostsClickLikeUpTo(MaxToggles)

\* onPostsClick, [data-dislike].
OnPostsClickDislike ==
    /\ Len(client.toggles) < MaxToggles
    /\ LET was == client.disliked
           cur == NumberOf(client.dislikeText)
       IN client' = [client EXCEPT
              !.dislikeText = Text(Optimistic(cur, ~was)),
              !.disliked = ~was,
              !.toggles = Append(@, NewToggle("dislike", was, cur, client.dislikeText))]
    /\ UNCHANGED server

\* toggleLike(id, buttonEl): the button text is set from the cached likes.
ToggleLike ==
    /\ Len(client.toggles) < MaxToggles
    /\ LET isLiked == client.button.liked
           before == client.cached
       IN client' = [client EXCEPT
              !.button = [liked |-> ~isLiked,
                          count |-> before + (IF isLiked THEN -1 ELSE 1)],
              !.toggles = Append(@, NewToggle("toggleLike", isLiked, before,
                                              Text(client.button.count)))]
    /\ UNCHANGED server

\* handleLikeClick(target) of the like-only client.
HandleLikeClick ==
    /\ Len(client.toggles) < MaxToggles
    /\ LET wasLiked == client.likedSet
           currentCount == NumberOf(client.countText)
       IN client' = [client EXCEPT
              !.countText = Text(Optimistic(currentCount, ~wasLiked)),
              !.likedSet = ~wasLiked,
              !.toggles = Append(@, NewToggle("handleLikeClick", wasLiked,
                                              currentCount, client.countText))]
    /\ UNCHANGED server

\* The request of toggle i is answered 200 {id, likes}. onPostsClick drops the
\* answer; handleLikeClick shows data.likes; toggleLike calls loadPosts(),
\* which sends GET /api/posts.
FetchOk(i) ==
    /\ client.toggles[i].pc = "sent"
    /\ Served(client.toggles[i].path, ~client.toggles[i].was)
    /\ LET t == client.toggles[i]
           likes == NewLikes(client.likes, IF t.was THEN -1 ELSE 1)
       IN client' = [client EXCEPT
              !.likes = likes,
              !.countText = IF t.path = "handleLikeClick" THEN Text(likes) ELSE @,
              !.toggles[i] =
                  IF t.path = "toggleLike"
                  THEN [t EXCEPT !.pc = "loading", !.reply = likes, !.requests = @ + 1]
                  ELSE [t EXCEPT !.pc = "done", !.reply = likes]]
    /\ UNCHANGED server

\* The count a failed toggle puts back: String(cur).
Rollback(t) == Text(t.cur)

\* The request of toggle i fails (network error or a status that is not
\* 2xx): the catch block puts the flag and the count back and calls alert();
\* the count goes to the element the handler found at the click, which a
\* render since then has taken out of the document. toggleLike puts the
\* button text back and rethrows.
FetchFails(i) ==
    /\ client.toggles[i].pc = "sent"
    /\ LET t == client.toggles[i]
       IN client' =
            CASE t.path = "like" ->
                   [client EXCEPT !.liked = t.was,
                                  !.likeText = IF t.attached THEN Rollback(t) ELSE @,
                                  !.toggles[i] = [t EXCEPT !.pc = "failed", !.alerts = @ + 1]]
              [] t.path = "dislike" ->
                   [client EXCEPT !.disliked = t.was,
                                  !.dislikeText = IF t.attached THEN Rollback(t) ELSE @,
                                  !.toggles[i] = [t EXCEPT !.pc = "failed", !.alerts = @ + 1]]
              [] t.path = "handleLikeClick" ->
                   [client EXCEPT !.likedSet = t.was,
                                  !.countText = Rollback(t),
                                  !.toggles[i] = [t EXCEPT !.pc = "failed", !.alerts = @ + 1]]
              [] t.path = "toggleLike" ->
                   [client EXCEPT !.button = [liked |-> t.was, count |-> t.cur],
                                  !.toggles[i] = [t EXCEPT !.pc = "failed"]]
    /\ UNCHANGED server

\* refreshPosts() after loadPosts() stored the posts: the list is rendered
\* anew from STATE_POSTS (p.likes || 0, p.dislikes || 0; the server sends no
\* dislikes), and the elements the toggles under way hold leave the document.
Rendered(c) ==
    [c EXCEPT !.cached = c.likes,
              !.likeText = Text(c.likes),
              !.dislikeText = Text(0),
              !.toggles = [j \in DOMAIN c.toggles |->
                             IF c.toggles[j].path \in {"like", "dislike"}
                             THEN [c.toggles[j] EXCEPT !.attached = FALSE]
                             ELSE c.toggles[j]]]

\* The loadPosts() of toggleLike succeeds ...
LoadPostsOk(i) ==
    /\ client.toggles[i].pc = "loading"
    /\ client' = [Rendered(client) EXCEPT !.toggles[i].pc = "done"]
    /\ UNCHANGED server

\* ... or fails: the catch block of toggleLike puts the button text back.
LoadPostsFails(i) ==
    /\ client.toggles[i].pc = "loading"
    /\ client' = [client EXCEPT
           !.button = [liked |-> client.toggles[i].was, count |-> client.toggles[i].cur],
           !.toggles[i].pc = "failed"]
    /\ UNCHANGED server

\* loadPosts() after a comment, a new post, an edit or a delete.
LoadPosts ==
    /\ client' = Rendered(client)
    /\ UNCHANGED server

\* Another browser likes or unlikes the post.
OtherClientLikes ==
    /\ \E delta \in {-1, 1} :
         /\ NewLikes(client.likes, delta) <= MaxCount
         /\ client' = [client EXCEPT !.likes = NewLikes(@, delta)]
    /\ UNCHANGED server

InitClient ==
    /\ file = MissingFile
    /\ tmp = MissingFile
    /\ alive = TRUE
    /\ reqs = <<>>
    /\ pending = 0
    /\ chain = <<>>
    /\ file0 = file
    /\ ioErrors = 0
    /\ crashes = 0
    /\ now = 1
    /\ got = NoAnswer
    /\ \E flag \in BOOLEAN, n \in 0..MaxCount, likes \in 0..MaxCount :
         client = Page(flag, n, likes)

NextClient ==
    \/ OnPostsClickLike
    \/ OnPostsClickDislike
    \/ ToggleLike
    \/ HandleLikeClick
    \/ \E i \in DOMAIN client.toggles : FetchOk(i)
    \/ \E i \in DOMAIN client.toggles : FetchFails(i)
    \/ \E i \in DOMAIN client.toggles : LoadPostsOk(i)
    \/ \E i \in DOMAIN client.toggles : LoadPostsFails(i)
    \/ LoadPosts
    \/ OtherClientLikes

SpecClient == InitClient /\ [][NextClient]_vars

\* The browser while the user clicks the heart of one post again and again,
\* also before the request of the click before is answered.
NextClicks ==
    \/ OnPostsClickLikeUpTo(MaxClicks)
    \/ \E i \in DOMAIN client.toggles : FetchOk(i)
    \/ \E i \in DOMAIN client.toggles : FetchFails(i)

SpecClicks == InitClient /\ [][NextClicks]_vars

\* ----------------------------------------------------------------- claims
LikesOf(f, id) == ParsePosts(f)[FindIndex(ParsePosts(f), id)].likes
Answered(r) == reqs[r].status # 0
Accepted(r) == reqs[r].status \in {200, 201, 204}
Quiescent == \A r \in DOMAIN reqs : reqs[r].pc \in {"done", "failed"}

\* Only likes of post p1 were received, p1 was in the file at the start, and
\* every one of them has been answered.
OnlyLikesAllAnswered ==
    /\ HasPost(file0, "p1")
    /\ \A r \in DOMAIN reqs :
         reqs[r].op = "like" /\ reqs[r].id = "p1" /\ Answered(r)

\* C1, as stated: once N concurrent likes of an existing post have all been
\* answered, the persisted likes of the post are its initial likes plus N.
C1_AnsweredLikesAllCounted ==
    OnlyLikesAllAnswered =>
        /\ HasPost(file, "p1")
        /\ LikesOf(file, "p1") = LikesOf(file0, "p1") + Len(reqs)

\* C1, amended: once N concurrent likes of an existing post have all been
\* answered, the persisted likes of the post are its initial likes plus the
\* number of those likes answered 200 (N when no write failed): no accepted
\* increment is lost.
C1_AcceptedLikesAllCounted ==
    OnlyLikesAllAnswered =>
        /\ HasPost(file, "p1")
        /\ LikesOf(file, "p1") =
              LikesOf(file0, "p1") + Cardinality({r \in DOMAIN reqs : Accepted(r)})

\* Three likes were chained one behind the other and all were answered 200.
C1_Witness ==
    /\ OnlyLikesAllAnswered
    /\ Len(reqs) >= 3
    /\ \A r \in DOMAIN reqs : Accepted(r) /\ reqs[r].prev = r - 1
    /\ LikesOf(file, "p1") = LikesOf(file0, "p1") + 3

\* The array a task of request r leaves when it runs alone on the array ps.
TaskAlone(ps, r) ==
    IF NotFound(reqs[r].op, reqs[r].id, ps) THEN ps
    ELSE Mutate(reqs[r].op, reqs[r].id, reqs[r].body, ps, FindIndex(ps, reqs[r].id),
                reqs[r].ts)

\* The accepted requests of the sequence rs applied one at a time, in order.
RECURSIVE SerialApply(_, _)
SerialApply(ps, rs) ==
    IF rs = <<>> THEN ps
    ELSE SerialApply(IF Accepted(Head(rs)) THEN TaskAlone(ps, Head(rs)) ELSE ps,
                     Tail(rs))

\* C2: when every request has been answered, the persisted collection is the
\* one obtained by applying the accepted requests one at a time in the order
\* in which their tasks were passed to queue().
C2_SerialEquivalence ==
    Quiescent => ParsePosts(file) = SerialApply(ParsePosts(file0), chain)

\* Two accepted requests of different kinds, the second passed to queue() while
\* `pending` was the first one's promise.
C2_Witness ==
    /\ Quiescent
    /\ Len(chain) >= 2
    /\ \A i \in 1..Len(chain) : Accepted(chain[i])
    /\ reqs[chain[2]].prev = chain[1]
    /\ reqs[chain[1]].op # reqs[chain[2]].op
    /\ ParsePosts(file) # ParsePosts(file0)

BetweenReadAndWrite(r) == reqs[r].pc \in {"write", "tmpOpen", "tmpFull"}

\* C3: at every instant at most one task is between its readPosts() and the
\* rename of its writePostsAtomic().
C3_OneTaskAtATime ==
    Cardinality({r \in DOMAIN reqs : BetweenReadAndWrite(r)}) <= 1

\* A task is writing the temporary file while another one waits in the queue.
C3_Witness ==
    \E r, q \in DOMAIN reqs :
        /\ reqs[r].pc = "tmpOpen"
        /\ reqs[q].pc = "queued" /\ reqs[q].prev = r

Started(r) == reqs[r].pc \notin {"body", "queued"}

\* C4: a task has started only if every task passed to queue() before it has
\* settled.
C4_Fifo ==
    \A i, j \in 1..Len(chain) :
        (i < j /\ Started(chain[j])) => Settled(chain[i])

\* The second task of the chain has started, after the first one settled.
C4_Witness ==
    /\ Len(chain) >= 2
    /\ reqs[chain[2]].prev = chain[1]
    /\ BetweenReadAndWrite(chain[2])
    /\ Settled(chain[1])

\* C5: a task whose predecessors in the queue have all settled, one of them by
\* a rejection or not, can start; and a promise is rejected only for a task
\* whose own write failed.
C5_FailureDoesNotPoison ==
    /\ \A j \in 1..Len(chain) :
          (reqs[chain[j]].pc = "queued" /\ \A i \in 1..(j - 1) : Settled(chain[i]))
              => ENABLED TaskStart(chain[j], now)
    /\ \A r \in DOMAIN reqs : reqs[r].run = "rejected" => reqs[r].pc = "failed"
    /\ Cardinality({r \in DOMAIN reqs : reqs[r].run = "rejected"}) = ioErrors

\* A task chained to one that was rejected has run and succeeded.
C5_Witness ==
    \E r, q \in DOMAIN reqs :
        /\ reqs[q].prev = r
        /\ reqs[r].run = "rejected"
        /\ reqs[q].run = "fulfilled" /\ Accepted(q)

\* C6: when the process is killed inside writePostsAtomic before the rename, the
\* posts file is the file the task had read.
C6_KillBeforeRenameKeepsFile ==
    \A r \in DOMAIN reqs :
        (~alive /\ BetweenReadAndWrite(r)) => file = reqs[r].base

\* The process was killed with the temporary file fully written and the posts
\* file still holding the previous, different collection.
C6_Witness ==
    \E r \in DOMAIN reqs :
        /\ ~alive /\ reqs[r].pc = "tmpFull"
        /\ tmp = JsonFile(reqs[r].posts)
        /\ file.st = "json" /\ file.posts # <<>> /\ file # tmp

\* C7, as stated: in every reachable state, also after a kill at any step, the
\* posts file (once it exists) is a valid serialized array of posts.
C7_FileAlwaysValid == file.st \in {"missing", "json"}

\* C8, as stated: a request whose task failed on a write I/O error is answered
\* with a 5xx status, whatever the operation.
C8_WriteErrorAnswered5xx ==
    \A r \in DOMAIN reqs : reqs[r].pc = "failed" => reqs[r].status >= 500

\* C9: the step in which a file-system call of writePostsAtomic fails leaves
\* the posts file as the task had read it.
C9_FailedWriteKeepsFile ==
    [][\A r \in DOMAIN reqs :
          (BetweenReadAndWrite(r) /\ reqs'[r].pc = "failed")
              => file' = reqs[r].base]_vars

\* The rename of a task failed: the temporary file holds the new collection,
\* the posts file still the previous one.
C9_Witness ==
    \E r \in DOMAIN reqs :
        /\ reqs[r].pc = "failed"
        /\ tmp.st = "json" /\ file.st = "json" /\ file.posts # <<>>
        /\ tmp # file

\* C10: after any likes and unlikes, the persisted likes of every post are >= 0.
C10_LikesNeverNegative ==
    \A i \in 1..Len(ParsePosts(file)) : ParsePosts(file)[i].likes >= 0

\* Only unlikes of p1 were received, p1 started at 0 likes, one unlike was
\* answered 200 and the count is still 0.
C10_Witness ==
    /\ HasPost(file0, "p1") /\ LikesOf(file0, "p1") = 0
    /\ reqs # <<>>
    /\ \A r \in DOMAIN reqs : reqs[r].op = "unlike" /\ reqs[r].status = 200
    /\ HasPost(file, "p1") /\ LikesOf(file, "p1") = 0

\* The array a task has just renamed into place is the posts file, and the
\* post a create task pushed is its last element.
JustWrote(r, op) == reqs[r].op = op /\ reqs[r].pc = "renamed"
LastPost(f) == ParsePosts(f)[Len(ParsePosts(f))]
Blank(x) == ~IsString(x) \/ Trim(x) = <<>>

\* C11, as stated: in every reachable state the posts of the persisted
\* collection have pairwise distinct ids, also when two creates run within
\* one millisecond.
C11_IdsPairwiseDistinct ==
    \A i, j \in 1..Len(ParsePosts(file)) :
        i # j => ParsePosts(file)[i].id # ParsePosts(file)[j].id

\* C12, as stated: when the posts file is missing, unreadable or unparsable,
\* readPosts does not raise and GET /api/posts answers 200 with [].
C12_LoadNeverRaises ==
    got.saw \in {"missing", "unreadable", "partial"}
        => ~got.raised /\ got.status = 200 /\ got.posts = <<>>

\* C13: the step that answers a like or unlike of an existing post answers
\* 200 with {id, likes}, where likes is the count in the posts file, which is
\* max(0, likes + d) for the count the task read.
C13_LikeAnswersPersistedCount ==
    [][\A r \in DOMAIN reqs :
          (reqs[r].op \in {"like", "unlike"} /\ reqs[r].pc = "renamed"
              /\ reqs'[r].pc = "done")
          => /\ reqs'[r].status = 200
             /\ reqs'[r].reply = <<reqs[r].id, LikesOf(file', reqs[r].id)>>
             /\ LikesOf(file', reqs[r].id) =
                    Max(0, LikesOf(reqs[r].base, reqs[r].id)
                             + (IF reqs[r].op = "like" THEN 1 ELSE -1))]_vars

\* An unlike of p1 at 0 likes was answered 200 with {id: p1, likes: 0}, and a
\* like was answered with a count above 0.
C13_Witness ==
    /\ \E r \in DOMAIN reqs :
         reqs[r].op = "unlike" /\ reqs[r].status = 200 /\ reqs[r].reply = <<"p1", 0>>
    /\ \E r \in DOMAIN reqs :
         reqs[r].op = "like" /\ reqs[r].status = 200 /\ reqs[r].reply[2] > 0

\* C14, as stated: POST and DELETE on /api/posts/:id/dislike for an existing
\* post are answered 200 (with {id, dislikes}).
IsDislike(r) == Len(reqs[r].path) = 4 /\ reqs[r].path[4] = "dislike"
C14_DislikeAnswered200 ==
    \A r \in DOMAIN reqs :
        (IsDislike(r) /\ Answered(r) /\ HasPost(file0, reqs[r].id))
            => reqs[r].status = 200 /\ reqs[r].reply # <<>>

\* C15: a create whose title is missing, not a string or blank is answered
\* 400 and never queued, and when no other request came the collection is the
\* one the server started with.
InvalidCreate(r) == reqs[r].op = "create" /\ Blank(reqs[r].body.title)
C15_InvalidTitleRejected ==
    /\ \A r \in DOMAIN reqs :
          InvalidCreate(r) =>
              /\ reqs[r].pc \in {"body", "done"}
              /\ reqs[r].pc = "done" => reqs[r].status = 400
              /\ reqs[r].run = "none"
              /\ \A i \in 1..Len(chain) : chain[i] # r
    /\ (\A r \in DOMAIN reqs : InvalidCreate(r))
          => pending = 0 /\ tmp = MissingFile /\ ParsePosts(file) = ParsePosts(file0)

\* A create with the title " " was answered 400 with posts in the file.
C15_Witness ==
    \E r \in DOMAIN reqs :
        /\ InvalidCreate(r) /\ reqs[r].body.title = <<" ">>
        /\ reqs[r].status = 400
        /\ ParsePosts(file) # <<>>

\* C16, as stated: the post a create persisted has likes = 0, dislikes = 0 and
\* comments = [], and the collection is the previous one plus that post.
C16_CreatedPostDefaults ==
    \A r \in DOMAIN reqs :
        JustWrote(r, "create") =>
            /\ ParsePosts(file) = Append(ParsePosts(reqs[r].base), LastPost(file))
            /\ LastPost(file).likes = 0
            /\ LastPost(file).comments = <<>>
            /\ "dislikes" \in DOMAIN LastPost(file)
            /\ LastPost(file).dislikes = 0

\* C17, as stated: the post a create persisted has createdAt = updatedAt.
C17_CreatedAtIsUpdatedAt ==
    \A r \in DOMAIN reqs :
        JustWrote(r, "create") => LastPost(file).createdAt = LastPost(file).updatedAt

\* C18, as stated: a post created with no author or a blank one is persisted
\* with the author "Anonymous".
C18_BlankAuthorIsAnonymous ==
    \A r \in DOMAIN reqs :
        (JustWrote(r, "create") /\ Blank(reqs[r].body.author))
            => LastPost(file).author = Anonymous

\* C19, as stated: a GET /api/posts answered after a create was answered 201
\* returns a post with the title, content, author and imageUrl of the request.
AsSupplied(p, body) ==
    /\ IsString(body.title) => p.title = body.title
    /\ IsString(body.content) => p.content = body.content
    /\ IsString(body.author) => p.author = body.author
    /\ IsString(body.imageUrl) => "imageUrl" \in DOMAIN p /\ p.imageUrl = body.imageUrl
C19_CreateThenListRoundTrip ==
    [][\A r \in DOMAIN reqs :
          (reqs[r].op = "create" /\ reqs[r].status = 201
              /\ got' # got /\ got'.status = 200)
          => \E i \in 1..Len(got'.posts) : AsSupplied(got'.posts[i], reqs[r].body)]_vars

\* C20: the post an update task wrote differs from the one it read only in
\* updatedAt and in those of title, content and author that the body gives;
\* the other posts are the ones read.
C20_UpdateFrame ==
    \A r \in DOMAIN reqs :
        JustWrote(r, "update") =>
            LET old == ParsePosts(reqs[r].base)
                new == ParsePosts(file)
                i == FindIndex(old, reqs[r].id)
                b == reqs[r].body
            IN /\ Len(new) = Len(old)
               /\ \A j \in 1..Len(old) : j # i => new[j] = old[j]
               /\ DOMAIN new[i] = DOMAIN old[i]
               /\ new[i].id = old[i].id
               /\ new[i].createdAt = old[i].createdAt
               /\ new[i].likes = old[i].likes
               /\ new[i].comments = old[i].comments
               /\ new[i].title = IF IsString(b.title) THEN b.title ELSE old[i].title
               /\ new[i].content = IF IsString(b.content) THEN b.content ELSE old[i].content
               /\ new[i].author = IF IsString(b.author) THEN b.author ELSE old[i].author
               /\ new[i].updatedAt = reqs[r].ts[2]

\* An update that gives only the title wrote it, one millisecond after the
\* post was created, and the post kept its author and its like.
C20_Witness ==
    \E r \in DOMAIN reqs :
        /\ JustWrote(r, "update")
        /\ ~IsString(reqs[r].body.author) /\ ~IsString(reqs[r].body.content)
        /\ ParsePosts(file)[1].title = <<"b">>
        /\ ParsePosts(file)[1].author = Anonymous
        /\ ParsePosts(file)[1].likes = 1
        /\ ParsePosts(file)[1].updatedAt > ParsePosts(file)[1].createdAt

\* C21: the task of an update, delete, like, unlike or comment that finds no
\* post with its id answers 404 and ends there: the collection and the
\* temporary file are as before, and writePostsAtomic is not called.
EditOps == {"update", "delete", "like", "unlike", "comment"}
Deleted(r) == reqs[r].op = "delete" /\ reqs[r].status = 204
C22_DeletedStaysGone ==
    [][\A r \in DOMAIN reqs :
          Deleted(r) =>
            /\ (got' # got /\ got'.status = 200)
                 => \A i \in 1..Len(got'.posts) : got'.posts[i].id # reqs[r].id
            /\ \A q \in DOMAIN reqs :
                 (reqs[q].op \in EditOps /\ reqs[q].id = reqs[r].id
                     /\ reqs[q].pc = "queued" /\ reqs'[q].pc # "queued")
                 => reqs'[q].status = 404]_vars

\* C23, as stated: a comment with missing or blank content is never written,
\* and is answered 400 (404 when no post has the id).
C23_EmptyCommentRejected ==
    \A r \in DOMAIN reqs :
        (reqs[r].op = "comment" /\ Blank(reqs[r].body.content))
            => /\ ~reqs[r].persisted
               /\ reqs[r].pc \notin {"write", "tmpOpen", "tmpFull", "renamed"}
               /\ Answered(r) => reqs[r].status \in {400, 404}

\* C24: every step leaves the comments each post had as a prefix of the
\* comments it has, and the rename of a comment task adds one comment, with
\* the content of the request, at the end.
IsPrefix(a, b) == Len(a) <= Len(b) /\ SubSeq(b, 1, Len(a)) = a
C24_CommentsAppendOnly ==
    [][/\ Len(ParsePosts(file')) = Len(ParsePosts(file))
       /\ \A i \in 1..Len(ParsePosts(file)) :
            IsPrefix(ParsePosts(file)[i].comments, ParsePosts(file')[i].comments)
       /\ \A r \in DOMAIN reqs :
            (reqs[r].op = "comment" /\ reqs[r].pc = "tmpFull" /\ reqs'[r].pc = "renamed")
            => LET i == FindIndex(ParsePosts(file), reqs[r].id)
                   old == ParsePosts(file)[i].comments
                   new == ParsePosts(file')[i].comments
               IN /\ Len(new) = Len(old) + 1
                  /\ new[Len(new)].content = reqs[r].body.content
                  /\ new[Len(new)].createdAt = reqs[r].ts[1]]_vars

\* Two comments were written to p1, the second a millisecond after the first.
C24_Witness ==
    /\ HasPost(file, "p1")
    /\ Len(ParsePosts(file)[1].comments) = 2
    /\ ParsePosts(file)[1].comments[1].createdAt < ParsePosts(file)[1].comments[2].createdAt

\* C25: after any updates, likes, unlikes and comments, every post has the id
\* and the createdAt it started with.
C25_IdAndCreatedAtImmutable ==
    /\ Len(ParsePosts(file)) = Len(ParsePosts(file0))
    /\ \A i \in 1..Len(ParsePosts(file0)) :
          /\ ParsePosts(file)[i].id = ParsePosts(file0)[i].id
          /\ ParsePosts(file)[i].createdAt = ParsePosts(file0)[i].createdAt

\* An update and a comment were written to p1 after its creation time.
C25_Witness ==
    /\ \E r \in DOMAIN reqs : reqs[r].op = "update" /\ reqs[r].status = 200
    /\ \E r \in DOMAIN reqs : JustWrote(r, "comment")
    /\ ParsePosts(file)[1].updatedAt > ParsePosts(file)[1].createdAt
    /\ ParsePosts(file)[1].title = <<"b">>

\* C26: the post an update, like, unlike or comment task wrote has the value
\* of the task's last Date.now() as updatedAt, which is not before the
\* updatedAt it had; and every post has createdAt <= updatedAt <= now.
C26_UpdatedAtIsMutationTime ==
    /\ \A r \in DOMAIN reqs :
          (reqs[r].op \in {"update", "like", "unlike", "comment"}
              /\ reqs[r].pc = "renamed")
          => LET i == FindIndex(ParsePosts(file), reqs[r].id)
             IN /\ ParsePosts(file)[i].updatedAt = reqs[r].ts[2]
                /\ ParsePosts(reqs[r].base)[i].updatedAt <= reqs[r].ts[2]
                /\ reqs[r].ts[2] <= now
    /\ \A i \in 1..Len(ParsePosts(file)) :
          /\ ParsePosts(file)[i].createdAt <= ParsePosts(file)[i].updatedAt
          /\ ParsePosts(file)[i].updatedAt <= now

\* A like was written a millisecond after an update of the post.
C26_Witness ==
    /\ \E r \in DOMAIN reqs : JustWrote(r, "like") /\ reqs[r].ts[2] = 2
    /\ \E r \in DOMAIN reqs :
         reqs[r].op = "update" /\ reqs[r].status = 200 /\ reqs[r].ts[2] = 1
    /\ ParsePosts(file)[1].updatedAt = 2

\* The local flag and the count text of the handler of a toggle.
FlagOf(c, path) ==
    CASE path = "like" -> c.liked
      [] path = "dislike" -> c.disliked
      [] path = "handleLikeClick" -> c.likedSet
      [] OTHER -> c.button.liked
CountTextOf(c, path) ==
    CASE path = "like" -> c.likeText
      [] path = "dislike" -> c.dislikeText
      [] path = "handleLikeClick" -> c.countText
      [] OTHER -> Text(c.button.count)
Failing(i) == client.toggles[i].pc = "sent" /\ client'.toggles[i].pc = "failed"

\* C27, as stated: the step in which the request of a like or dislike toggle
\* (onPostsClick, handleLikeClick) fails leaves the local flag and the count
\* displayed equal to what they were before the toggle.
C27_FailedToggleRestores ==
    [][\A i \in DOMAIN client.toggles :
          (Failing(i) /\ client.toggles[i].path # "toggleLike")
          => /\ FlagOf(client', client.toggles[i].path) = client.toggles[i].was
             /\ CountTextOf(client', client.toggles[i].path) = client.toggles[i].before]_vars

\* C28, as stated: the step in which the request of a like toggle of
\* onPostsClick succeeds leaves the count displayed equal to the likes the
\* server answered, and the flag toggled.
C28_ShowsServerCount ==
    [][\A i \in DOMAIN client.toggles :
          (client.toggles[i].path = "like" /\ client.toggles[i].pc = "sent"
              /\ client'.toggles[i].pc = "done")
          => /\ client'.likeText = Text(client'.toggles[i].reply)
             /\ client'.liked = ~client.toggles[i].was]_vars

\* C29, as stated: the counts displayed by onPostsClick (like, dislike) and
\* by toggleLike are never below zero.
C29_CountNeverBelowZero ==
    /\ NumberOf(client.likeText) >= 0
    /\ NumberOf(client.dislikeText) >= 0
    /\ client.button.count >= 0

\* C30, as stated: a toggle sends exactly one request, and a toggle that
\* failed has raised a notification.
C30_OneRequestAndNotified ==
    \A i \in DOMAIN client.toggles :
        /\ client.toggles[i].requests = 1
        /\ client.toggles[i].pc = "failed" => client.toggles[i].alerts >= 1


\* C31: once a mutating task has been enqueued, a dropped client connection
\* neither cancels it nor rolls it back: the task runs to completion and its
\* write is persisted, whether the connection closed before the task started
\* or while it was writing.
C31_DroppedTaskCompletes ==
    \A r \in 1..MaxDropReqs :
        (r \in DOMAIN reqs /\ ~reqs[r].connected)
            ~> (r \in DOMAIN reqs /\ reqs[r].pc = "done" /\ reqs[r].persisted)

\* Two likes were enqueued, each connection was dropped before its task had
\* answered, and both tasks have run, written the file and finished.
C31_Witness ==
    /\ Len(reqs) = 2
    /\ \A r \in DOMAIN reqs :
         /\ reqs[r].op = "like" /\ ~reqs[r].connected
         /\ reqs[r].pc = "done" /\ reqs[r].persisted
    /\ LikesOf(file, "p1") = LikesOf(file0, "p1") + 2


\* C32: a like followed by an unlike of the same post, with no other request
\* on the post in between, brings the persisted likes back to the value they
\* had before the like, for every starting count: when the first task is a
\* like answered 200 and the second an unlike that has just written, the file
\* holds the count it held at the start.
C32_LikeThenUnlikeRestores ==
    (/\ Len(chain) >= 2
     /\ reqs[chain[1]].op = "like" /\ reqs[chain[1]].status = 200
     /\ JustWrote(chain[2], "unlike"))
        => LikesOf(file, "p1") = LikesOf(file0, "p1")

\* A post of MaxCount likes was liked, the like was answered MaxCount + 1, and
\* the unlike behind it has just written MaxCount again.
C32_Witness ==
    /\ Len(chain) >= 2
    /\ reqs[chain[1]].op = "like"
    /\ reqs[chain[1]].reply = <<"p1", MaxCount + 1>>
    /\ JustWrote(chain[2], "unlike")
    /\ LikesOf(file0, "p1") = MaxCount
    /\ LikesOf(file, "p1") = MaxCount


\* C33: a 2xx response to a mutating request is sent only after the new
\* collection has been renamed into place, and a GET /api/posts that starts
\* after it reflects the mutation until a later mutation changes the file:
\* when a request is answered 2xx, its rename has happened and the file is the
\* array its task wrote; the file changes only by a rename (or by the '[]' of
\* ensurePostsFile when it is missing); every GET answers the posts of the
\* file, and so the likes that the latest like answered 200 returned, as long
\* as no task behind it has renamed.
ChainPos(r) == CHOOSE i \in DOMAIN chain : chain[i] = r
LatestWrite(r) ==
    /\ reqs[r].persisted
    /\ \A q \in DOMAIN reqs :
         (reqs[q].persisted /\ q # r) => ChainPos(q) < ChainPos(r)
C33_AnsweredAfterRename ==
    [][/\ \A r \in DOMAIN reqs :
            (reqs[r].status = 0 /\ reqs'[r].status \in {200, 201, 204})
                => /\ reqs[r].persisted
                   /\ file = JsonFile(reqs[r].posts)
                   /\ file' = file
       /\ file' # file =>
            \/ file.st = "missing" /\ file' = JsonFile(<<>>)
            \/ \E r \in DOMAIN reqs : ~reqs[r].persisted /\ reqs'[r].persisted
       /\ got' # got =>
            /\ got'.status = 200
            /\ got'.posts = SortNewestFirst(ParsePosts(file'))
            /\ \A r \in DOMAIN reqs :
                 (reqs[r].op = "like" /\ reqs[r].status = 200 /\ LatestWrite(r))
                    => got'.posts[FindIndex(got'.posts, FirstId)].likes
                          = reqs[r].reply[2]]_vars

\* A create was answered 201, a like of the post it pushed was answered 200
\* with one like, and a GET has returned the post with that like.
C33_Witness ==
    /\ Len(reqs) >= 2
    /\ reqs[1].op = "create" /\ reqs[1].status = 201
    /\ \E r \in DOMAIN reqs :
         reqs[r].op = "like" /\ reqs[r].status = 200 /\ reqs[r].reply = <<FirstId, 1>>
    /\ got.status = 200
    /\ Len(got.posts) = 1 /\ got.posts[1].id = FirstId /\ got.posts[1].likes = 1


\* C34: when two like toggles of a post overlap in onPostsClick (the second
\* click comes while the request of the first is pending, and so reads the
\* flag the first has set) and both requests fail, the local flag and the
\* displayed count end equal to what they were before the first toggle.
Overlapped ==
    /\ Len(client.toggles) >= 2
    /\ client.toggles[1].path = "like" /\ client.toggles[2].path = "like"
    /\ client.toggles[2].was # client.toggles[1].was
C34_OverlappingFailuresRestore ==
    (/\ Len(client.toggles) = 2 /\ Overlapped
     /\ client.toggles[1].pc = "failed" /\ client.toggles[2].pc = "failed")
        => /\ client.liked = client.toggles[1].was
           /\ client.likeText = client.toggles[1].before


\* C35: mutating requests are applied in the order the server received them:
\* of two requests passed to queue(), the one received first is enqueued (and
\* so run) first, also when it carries a JSON body and the other has none.
\* (reqs is in the order of arrival, chain in the order of the queue() calls.)
C35_AppliedInReceiveOrder ==
    \A i, j \in 1..Len(chain) : i < j => chain[i] < chain[j]


\* C36: a mutating task that runs while the posts file is missing or does not
\* parse treats the collection as empty: the array of a create is exactly
\* the new post, and its rename replaces what the file held; update, delete,
\* like, unlike and comment answer 404 and write nothing (a missing file has
\* become the '[]' of ensurePostsFile).
NoCollection(f) == f.st # "json"
Finished(r) == reqs[r].pc \in {"done", "failed", "unhandled"}
C38_ExactlyOneResponse ==
    \A r \in DOMAIN reqs :
        /\ reqs[r].answers <= 1
        /\ reqs[r].answers = 1 <=> reqs[r].status # 0
        /\ Finished(r) => reqs[r].answers = 1


\* C39: a successful update, like, unlike or comment of post P leaves every
\* other post of the persisted collection as it was and keeps the order of
\* the posts; a successful delete of P removes P alone and leaves the others
\* as they were, in their order. (The array a task has just renamed into
\* place, against the array it read.)
C39_OtherPostsUntouched ==
    \A r \in DOMAIN reqs :
        reqs[r].pc = "renamed" =>
            LET old == ParsePosts(reqs[r].base)
                new == ParsePosts(file)
                idx == FindIndex(old, reqs[r].id)
            IN IF reqs[r].op = "delete"
               THEN /\ Len(new) = Len(old) - 1
                    /\ \A i \in 1..Len(new) :
                          new[i] = IF i < idx THEN old[i] ELSE old[i + 1]
                    /\ FindIndex(new, reqs[r].id) = 0
               ELSE /\ Len(new) = Len(old)
                    /\ \A i \in 1..Len(old) :
                          IF i = idx THEN new[i].id = reqs[r].id
                          ELSE new[i] = old[i]

\* The post in the middle was deleted and then the first of the two left, or
\* the post in the middle was changed between the two others.
C39_Witness ==
    \/ /\ Len(reqs) = 2 /\ reqs[1].status = 204
       /\ JustWrote(2, "delete")
       /\ Len(ParsePosts(file)) = 1 /\ ParsePosts(file)[1] = ThreePosts[3]
    \/ /\ \E r \in DOMAIN reqs : JustWrote(r, "update")
       /\ Len(ParsePosts(file)) = 3
       /\ ParsePosts(file)[1] = ThreePosts[1] /\ ParsePosts(file)[3] = ThreePosts[3]
       /\ ParsePosts(file)[2].title = <<"d">>

=============================================================================
